---------------------------- MODULE Spec2Model ----------------------------
(***************************************************************************)
(* Model of src/src/ActiveShapeModel.py: ReferentModel (Generalized        *)
(* Procrustes alignment), VarianceModel (PCA bookkeeping) and Sampler      *)
(* (normal-direction profile sampling).                                    *)
(*                                                                         *)
(* Numbers.  A coordinate array is kept exactly as an integer vector over  *)
(* a common surd denominator: [v |-> <<..>>, rad |-> r] stands for the     *)
(* floats v[i] / sqrt(r).  Every array is kept in lowest terms (Canon), so *)
(* two arrays are equal as floats iff their records are equal.  An array   *)
(* that numpy would fill with nan (0/0) is the record with nan = TRUE.     *)
(* Sampler coordinates are fixed point numbers, FixedPoint units a pixel.  *)
(***************************************************************************)
EXTENDS Integers, Sequences, FiniteSets, TLC

(***************************************************************************)
(* Bounds of the model.                                                    *)
(***************************************************************************)
NumShapes == 2       \* rows of the landmark matrix
MaxScale == 2        \* a row is a base shape times s, s \in -MaxScale..MaxScale
MaxAlignCalls == 2   \* calls of align() on one ReferentModel
MaxIter == 3         \* the iteration counter saturates here
MaxComp == 2         \* num_comp \in 1..MaxComp
MaxK == 2            \* Sampler.k \in 0..MaxK

(***************************************************************************)
(* Exact arithmetic.                                                       *)
(***************************************************************************)
Abs(x) == IF x < 0 THEN -x ELSE x

Sign(x) == IF x < 0 THEN -1 ELSE IF x > 0 THEN 1 ELSE 0

Max(S) == CHOOSE x \in S : \A y \in S : y <= x

RECURSIVE GCD(_, _)
GCD(a, b) == IF b = 0 THEN Abs(a) ELSE GCD(Abs(b), Abs(a) % Abs(b))

RECURSIVE SeqSum(_)
SeqSum(s) == IF s = <<>> THEN 0 ELSE Head(s) + SeqSum(Tail(s))

RECURSIVE VecGCD(_)
VecGCD(v) == IF v = <<>> THEN 0 ELSE GCD(Head(v), VecGCD(Tail(v)))

SumSq(v) == SeqSum([i \in 1..Len(v) |-> v[i] * v[i]])

Dot(u, v) == SeqSum([i \in 1..Len(u) |-> u[i] * v[i]])

\* the largest m with m*m dividing n (n > 0)
RECURSIVE SquarePartFrom(_, _, _)
SquarePartFrom(n, m, best) ==
    IF m > n \div m THEN best
    ELSE SquarePartFrom(n, m + 1, IF n % (m * m) = 0 THEN m ELSE best)

SquarePart(n) == SquarePartFrom(n, 1, 1)

IsSquare(n) == SquarePart(n) * SquarePart(n) = n

\* v / sqrt(r) in lowest terms
Canon(v, r) ==
    LET g == VecGCD(v)
    IN  IF g = 0 THEN [v |-> v, rad |-> 1, nan |-> FALSE]
        ELSE LET h == Max({d \in 1..g : g % d = 0 /\ r % (d * d) = 0})
             IN  [v |-> [i \in 1..Len(v) |-> v[i] \div h],
                  rad |-> r \div (h * h), nan |-> FALSE]

NaN(len) == [v |-> [i \in 1..len |-> 0], rad |-> 1, nan |-> TRUE]

\* the array a rewritten over the denominator sqrt(R); R / a.rad is a square
Over(a, R) ==
    LET m == SquarePart(R \div a.rad) IN [i \in 1..Len(a.v) |-> a.v[i] * m]

\* the least common surd denominator of two arrays (their ratio is rational)
RECURSIVE LeastMultiplier(_, _, _)
LeastMultiplier(r1, r2, m) ==
    IF (r1 * m * m) % r2 = 0 /\ IsSquare((r1 * m * m) \div r2) THEN m
    ELSE LeastMultiplier(r1, r2, m + 1)

CommonRad(r1, r2) ==
    IF r1 = r2 THEN r1 ELSE r1 * LeastMultiplier(r1, r2, 1) * LeastMultiplier(r1, r2, 1)

\* a + sign * b, coordinate by coordinate
AddArr(a, b, sign) ==
    IF a.nan \/ b.nan THEN NaN(Len(a.v))
    ELSE IF SumSq(b.v) = 0 THEN a
    ELSE IF SumSq(a.v) = 0 THEN Canon([i \in 1..Len(b.v) |-> sign * b.v[i]], b.rad)
    ELSE LET R == CommonRad(a.rad, b.rad)
             x == Over(a, R)
             y == Over(b, R)
         IN  Canon([i \in 1..Len(a.v) |-> x[i] + sign * y[i]], R)

\* a / n for an integer n > 0
DivArr(a, n) == IF a.nan THEN a ELSE Canon(a.v, a.rad * n * n)

(***************************************************************************)
(* Scalars m * sqrt(s) / d, such as a scale factor.                        *)
(***************************************************************************)
Surd(num, den, rad) ==
    IF num = 0 THEN [num |-> 0, den |-> 1, rad |-> 1]
    ELSE LET m == SquarePart(rad)
             n == num * m
             g == GCD(n, den)
         IN  [num |-> n \div g, den |-> den \div g, rad |-> rad \div (m * m)]

\* sqrt(p / q) for integers p >= 0, q > 0
SurdRoot(p, q) == Surd(1, q, p * q)

SurdMul(a, b) == Surd(a.num * b.num, a.den * b.den, a.rad * b.rad)

\* a + b for two scalars over the same square root (or one of them zero)
SurdAdd(a, b) ==
    IF a.num = 0 THEN b
    ELSE IF b.num = 0 THEN a
    ELSE Surd(a.num * b.den + b.num * a.den, a.den * b.den, a.rad)

Commensurable(a, b) == a.num = 0 \/ b.num = 0 \/ a.rad = b.rad


(***************************************************************************)
(* DataManipulations.DataCollector: one shape, a flat coordinate vector    *)
(* [y0, x0, y1, x1, ...] and its cumulative scale_factor.                  *)
(***************************************************************************)
One == [num |-> 1, den |-> 1, rad |-> 1]

DataCollector(arr) == [points |-> arr, scale_factor |-> One]

read_vector(dc, arr) == [dc EXCEPT !.points = arr]

\* the sum of the y (axis = 1) or x (axis = 0) coordinates of a flat vector
AxisSum(v, axis) ==
    SeqSum([i \in 1..Len(v) |-> IF i % 2 = axis THEN v[i] ELSE 0])

\* subtract the centroid from every point
translate_to_origin(dc) ==
    LET a == dc.points
        n == Len(a.v) \div 2
    IN  IF a.nan THEN dc
        ELSE [dc EXCEPT !.points =
                 Canon([i \in 1..Len(a.v) |-> n * a.v[i] - AxisSum(a.v, i % 2)],
                       a.rad * n * n)]

\* divide every coordinate by the norm; the factor is kept in scale_factor
scale_to_unit(dc) ==
    LET a == dc.points
    IN  IF a.nan THEN dc
        ELSE IF SumSq(a.v) = 0
        THEN [points |-> NaN(Len(a.v)),
              scale_factor |-> SurdMul(dc.scale_factor, Surd(0, 1, 1))]
        ELSE [points |-> Canon(a.v, SumSq(a.v)),
              scale_factor |-> SurdMul(dc.scale_factor, SurdRoot(SumSq(a.v), a.rad))]

\* an angle is kept as the direction (re, im) of (cos, sin)
ZeroAngle == [re |-> 1, im |-> 0, nan |-> FALSE]

\* rotate every point about the origin by the angle
rotate(dc, angle) ==
    LET a == dc.points
    IN  IF a.nan \/ angle.nan THEN [dc EXCEPT !.points = NaN(Len(a.v))]
        ELSE [dc EXCEPT !.points =
                 Canon([i \in 1..Len(a.v) |->
                          IF i % 2 = 1
                          THEN a.v[i + 1] * angle.im + a.v[i] * angle.re
                          ELSE a.v[i] * angle.re - a.v[i - 1] * angle.im],
                       a.rad * (angle.re * angle.re + angle.im * angle.im))]

\* | norm - 1 | = 1/10, the value line 143 tests check_distance() against
check_distance_is_tenth(dc) ==
    LET a == dc.points
    IN  /\ ~a.nan
        /\ \/ 100 * SumSq(a.v) = 81 * a.rad
           \/ 100 * SumSq(a.v) = 121 * a.rad

(***************************************************************************)
(* utils                                                                   *)
(***************************************************************************)
\* least-squares rotation of item onto mean: atan2(cross, dot)
rotation_alignment(mean, item) ==
    LET m == mean.points
        t == item.points
        dot == Dot(t.v, m.v)
        cross == SeqSum([i \in 1..Len(t.v) |->
                           IF i % 2 = 1 THEN -(t.v[i] * m.v[i + 1])
                           ELSE t.v[i] * m.v[i - 1]])
        g == GCD(dot, cross)
    IN  IF m.nan \/ t.nan THEN [re |-> 0, im |-> 0, nan |-> TRUE]
        ELSE IF g = 0 THEN ZeroAngle
        ELSE [re |-> dot \div g, im |-> cross \div g, nan |-> FALSE]

\* the squared distance between two mean shapes is below the threshold
is_converged(old, new) ==
    /\ ~old.points.nan
    /\ ~new.points.nan
    /\ old.points = new.points

(***************************************************************************)
(* State.                                                                  *)
(***************************************************************************)
VARIABLES
    points,          \* ReferentModel.points: the rows, then the DataCollector list
    pointsIsList,    \* isinstance(self.points, types.ListType)
    mean_shape,      \* ReferentModel.mean_shape, <<>> for None
    old_mean_shape,  \* the local of align()
    pc,              \* where align() stands: "idle", "test" (line 126), "body"
    alignRet,        \* how the last align() call ended
    alignCalls,      \* align() calls made
    iterations,      \* loop bodies run by the current align() call
    vm,              \* a VarianceModel has been constructed
    deviation,       \* VarianceModel.deviation
    covariance,      \* VarianceModel.covariance, <<>> for None
    pca_fitter,      \* VarianceModel.pca_fitter, <<>> for None, else <<PCA>>
    vm_mean_model,   \* VarianceModel.mean_model
    obtained,        \* how the last obtain_components() call ended, or "never"
    ret,             \* the last VarianceModel call and its outcome
    sm               \* the Sampler and its running call

refVars == <<points, pointsIsList, mean_shape, old_mean_shape, pc, alignRet,
             alignCalls, iterations>>

vmVars == <<vm, deviation, covariance, pca_fitter, vm_mean_model, obtained, ret>>

vmFields == <<deviation, covariance, pca_fitter, vm_mean_model>>

vars == <<refVars, vmVars, sm>>

(***************************************************************************)
(* Training shapes: two rhombi with the same landmark order, each row a    *)
(* base shape turned by 0 or 180 degrees, scaled and moved (a scale of 0   *)
(* puts every landmark on one point).                                      *)
(***************************************************************************)
Wide == <<0, 3, 1, 0, 0, -3, -1, 0>>

Tall == <<0, 1, 3, 0, 0, -1, -3, 0>>

BaseShapes == {Wide, Tall}

Row(base, s, ind) ==
    [v |-> [i \in 1..Len(base) |-> s * base[i] + (IF i % 2 = 1 THEN ind ELSE 2 * ind)],
     rad |-> 1, nan |-> FALSE]

Rows == [1..NumShapes -> BaseShapes \X (-MaxScale..MaxScale)]

(***************************************************************************)
(* ReferentModel                                                           *)
(***************************************************************************)
RECURSIVE SumArr(_)
SumArr(arrs) ==
    IF Len(arrs) = 1 THEN arrs[1] ELSE AddArr(arrs[1], SumArr(Tail(arrs)), 1)

\* np.mean(coll, axis=0) over the rows of the collection
mean_model(pts) ==
    DivArr(SumArr([i \in 1..Len(pts) |-> pts[i].points]), Len(pts))

_convert_matrix_to_collection(pts) ==
    [ind \in 1..Len(pts) |-> read_vector(DataCollector(pts[ind].points), pts[ind].points)]

\* lines 114-119: centre every shape, then scale it to unit distance
AlignPrepareNoScale(coll) == [i \in 1..Len(coll) |-> translate_to_origin(coll[i])]

AlignPrepare(coll) ==
    [i \in 1..Len(coll) |-> scale_to_unit(translate_to_origin(coll[i]))]

\* lines 131-136: the new mean, centred and scaled
NewMean(mean, pts) ==
    scale_to_unit(translate_to_origin(read_vector(mean, mean_model(pts))))

\* lines 140-144: turn one shape onto the mean, centre it again
Realign(mean, item) ==
    LET turned == rotate(item, rotation_alignment(mean, item))
    IN  IF ~check_distance_is_tenth(turned) THEN translate_to_origin(turned)
        ELSE turned

RECURSIVE SurdSum(_)
SurdSum(s) == IF s = <<>> THEN Surd(0, 1, 1) ELSE SurdAdd(Head(s), SurdSum(Tail(s)))

\* lines 149-152
MeanScaleFactor(pts) ==
    LET total == SurdSum([i \in 1..Len(pts) |-> pts[i].scale_factor])
    IN  Surd(total.num, total.den * Len(pts), total.rad)

\* line 126: the loop is left when the mean no longer moves
LoopExits(old, new) == is_converged(old, new)

\* align(), lines 111-124; on a list, line 86 raises TypeError
AlignCall ==
    /\ pc = "idle"
    /\ alignCalls < MaxAlignCalls
    /\ alignCalls' = alignCalls + 1
    /\ IF pointsIsList
       THEN /\ alignRet' = "TypeError"
            /\ UNCHANGED <<points, pointsIsList, mean_shape, old_mean_shape, pc,
                           iterations>>
       ELSE /\ LET coll == AlignPrepare(_convert_matrix_to_collection(points))
               IN  /\ points' = coll
                   /\ mean_shape' = <<coll[1]>>
            /\ pointsIsList' = TRUE
            /\ old_mean_shape' =
                   <<DataCollector(Canon([i \in 1..Len(points[1].points.v) |-> 0], 1))>>
            /\ iterations' = 0
            /\ alignRet' = "running"
            /\ pc' = "test"
    /\ UNCHANGED <<vmVars, sm>>

\* line 126, and lines 149-152 once the loop is left
AlignTest ==
    /\ pc = "test"
    /\ IF LoopExits(old_mean_shape[1], mean_shape[1])
       THEN /\ mean_shape' =
                  <<[mean_shape[1] EXCEPT !.scale_factor = MeanScaleFactor(points)]>>
            /\ alignRet' = "returned"
            /\ pc' = "idle"
       ELSE /\ pc' = "body"
            /\ UNCHANGED <<mean_shape, alignRet>>
    /\ UNCHANGED <<points, pointsIsList, old_mean_shape, alignCalls, iterations,
                   vmVars, sm>>

\* lines 127-146
AlignBody ==
    /\ pc = "body"
    /\ old_mean_shape' = <<read_vector(old_mean_shape[1], mean_shape[1].points)>>
    /\ LET mean == NewMean(mean_shape[1], points)
       IN  /\ mean_shape' = <<mean>>
           /\ points' = [i \in 1..Len(points) |-> Realign(mean, points[i])]
    /\ iterations' = IF iterations < MaxIter THEN iterations + 1 ELSE iterations
    /\ pc' = "test"
    /\ UNCHANGED <<pointsIsList, alignRet, alignCalls, vmVars, sm>>

(***************************************************************************)
(* VarianceModel                                                           *)
(***************************************************************************)
retrieve_as_matrix(pts) == [i \in 1..Len(pts) |-> pts[i].points]

\* line 199: the mean taken off every row
SubtractedFirstRow(pts, mean) == pts[1].points

SubtractedMean(pts, mean) == mean_model(pts)

\* VarianceModel(ref_model), lines 193-199; on a ReferentModel that was never
\* aligned the rows have no as_vector() and line 99 raises AttributeError
VarianceModelInit ==
    /\ pc = "idle"
    /\ ~vm
    /\ IF ~pointsIsList
       THEN /\ ret' = [op |-> "VarianceModel", out |-> "AttributeError", n |-> 0]
            /\ UNCHANGED <<vm, deviation, covariance, pca_fitter, vm_mean_model,
                           obtained>>
       ELSE /\ vm' = TRUE
            /\ deviation' =
                  [ind \in 1..Len(points) |->
                      AddArr(retrieve_as_matrix(points)[ind],
                             SubtractedMean(points, mean_shape[1]), -1)]
            /\ covariance' = <<>>
            /\ pca_fitter' = <<>>
            /\ vm_mean_model' = mean_shape
            /\ obtained' = "never"
            /\ ret' = [op |-> "VarianceModel", out |-> "value", n |-> 0]
    /\ UNCHANGED <<refVars, sm>>

\* line 218: the fitter stored by obtain_components, PCA(n_components=num_comp)
StoredFitterNone(old, num_comp, fitted) == old

StoredFitter(old, num_comp, fitted) == <<[n_components |-> num_comp, fitted |-> fitted]>>

\* line 219: PCA.fit raises ValueError when asked for more components than the
\* rows have coordinates, and sets components_ otherwise
FitRaises(num_comp, matrix) == num_comp > Len(matrix[1].v)

\* the values of num_comp: some the data allows, one it does not
Components == (1..MaxComp) \cup {Len(deviation[1].v) + 1}

\* obtain_components(num_comp), lines 215-219
obtain_components ==
    /\ pc = "idle"
    /\ vm
    /\ \E num_comp \in Components :
          LET raises == FitRaises(num_comp, deviation)
          IN  /\ covariance' = IF covariance = <<>> THEN <<"cov">> ELSE covariance
              /\ pca_fitter' = StoredFitter(pca_fitter, num_comp, ~raises)
              /\ obtained' = IF raises THEN "raised" ELSE "returned"
              /\ ret' = [op |-> "obtain_components",
                         out |-> IF raises THEN "ValueError" ELSE "value",
                         n |-> num_comp]
    /\ UNCHANGED <<vm, deviation, vm_mean_model, refVars, sm>>

\* lines 229, 239 and 247: an attribute that only a fitted PCA has
FittedAttribute(op) ==
    IF pca_fitter[1].fitted
    THEN [op |-> op, out |-> "value", n |-> pca_fitter[1].n_components]
    ELSE [op |-> op, out |-> "AttributeError", n |-> 0]

\* lines 226-229 and 236-239: the guard, then the fitted attribute
Getter(op) ==
    /\ pc = "idle"
    /\ vm
    /\ ret' = IF pca_fitter = <<>>
              THEN [op |-> op, out |-> "ValueError", n |-> 0]
              ELSE FittedAttribute(op)
    /\ UNCHANGED <<vm, deviation, covariance, pca_fitter, vm_mean_model, obtained,
                   refVars, sm>>

get_components == Getter("get_components")

get_variances_explained == Getter("get_variances_explained")

\* lines 246-247: eigvalsh(None) raises before obtain_components
get_eigenvalues ==
    /\ pc = "idle"
    /\ vm
    /\ ret' = IF covariance = <<>>
              THEN [op |-> "get_eigenvalues", out |-> "LinAlgError", n |-> 0]
              ELSE FittedAttribute("get_eigenvalues")
    /\ UNCHANGED <<vm, deviation, covariance, pca_fitter, vm_mean_model, obtained,
                   refVars, sm>>

(***************************************************************************)
(* The ReferentModel and VarianceModel specification.                      *)
(***************************************************************************)
SamplerIdle == [phase |-> "none"]

Init ==
    /\ \E rows \in Rows :
          points = [ind \in 1..NumShapes |->
                       DataCollector(Row(rows[ind][1], rows[ind][2], ind))]
    /\ pointsIsList = FALSE
    /\ mean_shape = <<>>
    /\ old_mean_shape = <<>>
    /\ pc = "idle"
    /\ alignRet = "none"
    /\ alignCalls = 0
    /\ iterations = 0
    /\ vm = FALSE
    /\ deviation = <<>>
    /\ covariance = <<>>
    /\ pca_fitter = <<>>
    /\ vm_mean_model = <<>>
    /\ obtained = "never"
    /\ ret = [op |-> "none", out |-> "none", n |-> 0]
    /\ sm = SamplerIdle

Next ==
    \/ AlignCall
    \/ AlignTest
    \/ AlignBody
    \/ VarianceModelInit
    \/ obtain_components
    \/ get_components
    \/ get_variances_explained
    \/ get_eigenvalues

Spec == Init /\ [][Next]_vars

\* a running align() call keeps running
FairSpec ==
    /\ Spec
    /\ WF_vars(AlignTest)
    /\ ([]<>(pc # "body") \/ []<><<AlignBody>>_vars)

(***************************************************************************)
(* Sampler.  A landmark is <<y, x>> in fixed point, FixedPoint units to a  *)
(* pixel; a normal is kept doubled (n1 + n2), so that halves are exact.    *)
(***************************************************************************)
LoopLength == 40          \* the modulus of line 275
StepHundredths == 2       \* the step 0.02 of lines 294 and 301
FixedPoint == 100 * 2     \* hundredths of a pixel, halved for the normals
MaxInd == 500             \* the loop counter ind saturates here
ImageSize == 16           \* rows and columns of the image

\* int(): truncation toward zero of a fixed point number
int(a) == IF a >= 0 THEN a \div FixedPoint ELSE -((-a) \div FixedPoint)

\* the landmarks of a closed walk along the pixel grid, one pixel a step
Square(m) ==
    [i \in 1..(4 * m) |->
        LET side == (i - 1) \div m
            t == (i - 1) % m
        IN  CASE side = 0 -> <<0, t>>
              [] side = 1 -> <<t, m>>
              [] side = 2 -> <<m, m - t>>
              [] OTHER -> <<m - t, 0>>]

Spike(m) == [i \in 1..(2 * m) |-> IF i <= m + 1 THEN <<0, i - 1>> ELSE <<0, 2 * m + 1 - i>>]

\* the walk in fixed point, moved by a fraction of a pixel
Placed(walk, off) ==
    [i \in 1..Len(walk) |-> <<walk[i][1] * FixedPoint + off[1],
                              walk[i][2] * FixedPoint + off[2]>>]

SamplerShapes ==
    {Placed(w, <<140, 50>>) :
        w \in {Spike(1), Square(1), Square(LoopLength \div 4), Spike(LoopLength \div 2),
               Square(LoopLength \div 4 + 1)}}

Images == {"zero", "ramp"}

\* numpy indexing along one axis of length len: a negative index counts from
\* the end, anything else outside raises IndexError
InRange(j, len) == -len <= j /\ j < len

Wrap(j, len) == IF j < 0 THEN j + len ELSE j

\* image[y, x]
Intensity(image, y, x) ==
    IF image = "zero" THEN 0
    ELSE (3 * Wrap(y, ImageSize) + Wrap(x, ImageSize)) % 5

\* utils.normal: the unit normal of the edge p1 -> p2, an axis-parallel edge
normal(p1, p2) == <<Sign(p2[2] - p1[2]), -Sign(p2[1] - p1[1])>>

\* line 275: the index of the successor landmark
Successor(ind, len) == (ind + 1) % LoopLength

\* lines 274-277 for one ind (0-based): n1 + n2, twice the appended normal
NormalAt(pts, ind) ==
    LET len == Len(pts)
        n1 == normal(pts[Wrap(ind - 1, len) + 1], pts[ind + 1])
        n2 == normal(pts[ind + 1], pts[Wrap(Successor(ind, len), len) + 1])
    IN  <<n1[1] + n2[1], n1[2] + n2[2]>>

\* the first ind at which line 275 raises IndexError, Len(pts) if none
FirstBadInd(pts) ==
    LET bad == {ind \in 0..(Len(pts) - 1) : ~InRange(Successor(ind, Len(pts)), Len(pts))}
    IN  IF bad = {} THEN Len(pts) ELSE CHOOSE ind \in bad : \A j \in bad : ind <= j

\* self.normals when _calculate_normals returns or raises
_calculate_normals(pts) == [ind \in 1..FirstBadInd(pts) |-> NormalAt(pts, ind - 1)]

\* lines 294 and 301: int(start_point - ind * 0.02 * direction), side = -1, and
\* int(start_point + ind * 0.02 * direction), side = 1
new_point(start, dir2, ind, side) ==
    <<int(start[1] + side * ind * StepHundredths * dir2[1]),
      int(start[2] + side * ind * StepHundredths * dir2[2])>>

\* line 289
StartingPoint(start) == <<int(start[1]), int(start[2])>>

InSeq(x, seq) == \E i \in 1..Len(seq) : seq[i] = x

\* lines 295 and 302: the candidate is new
AcceptsAll(p, side_points, start) == TRUE

AcceptsOffCentre(p, side_points, start) == p # <<int(start[1]), int(start[2])>>

Accepts(p, side_points, start) ==
    ~InSeq(p, side_points) /\ p # StartingPoint(start)

Reverse(seq) == [i \in 1..Len(seq) |-> seq[Len(seq) + 1 - i]]

\* lines 306-307
GeneratedForward(neg, start, pos) == neg \o <<StartingPoint(start)>> \o pos

Generated(neg, start, pos) == Reverse(neg) \o <<StartingPoint(start)>> \o pos

\* lines 319-320: the intensities, or where the image index is out of range
Readable(pts) ==
    \A i \in 1..Len(pts) : InRange(pts[i][1], ImageSize) /\ InRange(pts[i][2], ImageSize)

Intensities(image, pts) == [i \in 1..Len(pts) |-> Intensity(image, pts[i][1], pts[i][2])]

\* line 322
Divnum(sample) == SeqSum([i \in 1..Len(sample) |-> Abs(sample[i])])

\* _sample, lines 317-325: the outcome and the profile as fractions num / den
_sample(image, pts) ==
    IF ~Readable(pts) THEN [op |-> "_sample", out |-> "IndexError", value |-> <<>>]
    ELSE LET sample == Intensities(image, pts)
             divnum == Divnum(sample)
         IN  IF divnum = 0
             THEN [op |-> "_sample", out |-> "ZeroDivisionError", value |-> <<>>]
             ELSE [op |-> "_sample", out |-> "value",
                   value |-> [i \in 1..Len(sample) |-> <<sample[i], divnum>>]]

\* the arguments of a direct _generate_points(start_point, direction) call
DirectStarts == {<<0, 0>>, <<-120, 330>>, <<399, ImageSize * FixedPoint + 1>>}

DirectDirections == {<<0, 0>>, <<1, 0>>, <<-1, 2>>, <<150, -2>>}

NoCall == [op |-> "none", out |-> "none", value |-> <<>>]

Running(op) == [op |-> op, out |-> "running", value |-> <<>>]

\* the locals of _generate_points at line 292
EnterGenerate(s, caller, start, dir2) ==
    [s EXCEPT !.phase = "pos", !.caller = caller, !.start_point = start,
              !.direction = dir2, !.pos_points = <<>>, !.neg_points = <<>>,
              !.ind = 1, !.generated = <<>>, !.sampled = NoCall]

NextInd(ind) == IF ind < MaxInd THEN ind + 1 ELSE ind

\* Sampler._calculate_normals()
CalculateNormalsCall ==
    /\ sm.phase = "idle"
    /\ sm' = [sm EXCEPT
                !.normals = _calculate_normals(sm.points),
                !.out = [op |-> "_calculate_normals",
                         out |-> IF FirstBadInd(sm.points) < Len(sm.points)
                                 THEN "IndexError" ELSE "value",
                         value |-> <<>>]]
    /\ UNCHANGED <<refVars, vmVars>>

\* Sampler._generate_points(start_point, direction), lines 287-292
GeneratePointsCall ==
    /\ sm.phase = "idle"
    /\ \E start \in DirectStarts, dir2 \in DirectDirections :
          sm' = [EnterGenerate(sm, "direct", start, dir2) EXCEPT
                    !.out = Running("_generate_points"), !.batch = 0,
                    !.collected = <<>>]
    /\ UNCHANGED <<refVars, vmVars>>

\* Sampler.sample(), lines 332-336: the normals, then the first landmark
SampleCall ==
    /\ sm.phase = "idle"
    /\ LET normals == _calculate_normals(sm.points)
           s == [sm EXCEPT !.normals = normals, !.batch = 0, !.collected = <<>>,
                           !.generated = <<>>, !.sampled = NoCall]
       IN  IF Len(normals) < Len(sm.points)
           THEN sm' = [s EXCEPT !.out = [op |-> "sample", out |-> "IndexError",
                                         value |-> <<>>]]
           ELSE sm' = [EnterGenerate(s, "sample", sm.points[1], normals[1]) EXCEPT
                          !.out = Running("sample")]
    /\ UNCHANGED <<refVars, vmVars>>

\* lines 293-297: one turn of the first loop
GeneratePosStep ==
    /\ sm.phase = "pos"
    /\ Len(sm.pos_points) < sm.k
    /\ LET p == new_point(sm.start_point, sm.direction, sm.ind, -1)
       IN  sm' = [sm EXCEPT
                    !.pos_points = IF Accepts(p, sm.pos_points, sm.start_point)
                                   THEN Append(sm.pos_points, p) ELSE sm.pos_points,
                    !.ind = NextInd(sm.ind)]
    /\ UNCHANGED <<refVars, vmVars>>

\* lines 293 and 299: the first loop is left
GeneratePosExit ==
    /\ sm.phase = "pos"
    /\ Len(sm.pos_points) >= sm.k
    /\ sm' = [sm EXCEPT !.phase = "neg", !.ind = 1]
    /\ UNCHANGED <<refVars, vmVars>>

\* lines 300-304: one turn of the second loop
GenerateNegStep ==
    /\ sm.phase = "neg"
    /\ Len(sm.neg_points) < sm.k
    /\ LET p == new_point(sm.start_point, sm.direction, sm.ind, 1)
       IN  sm' = [sm EXCEPT
                    !.neg_points = IF Accepts(p, sm.neg_points, sm.start_point)
                                   THEN Append(sm.neg_points, p) ELSE sm.neg_points,
                    !.ind = NextInd(sm.ind)]
    /\ UNCHANGED <<refVars, vmVars>>

\* lines 300, 306-307: _generate_points returns
GenerateReturn ==
    /\ sm.phase = "neg"
    /\ Len(sm.neg_points) >= sm.k
    /\ LET result == Generated(sm.neg_points, sm.start_point, sm.pos_points)
       IN  IF sm.caller = "direct"
           THEN sm' = [sm EXCEPT !.phase = "idle", !.generated = result,
                          !.out = [op |-> "_generate_points", out |-> "value",
                                   value |-> result]]
           ELSE sm' = [sm EXCEPT !.phase = "sampling", !.generated = result]
    /\ UNCHANGED <<refVars, vmVars>>

\* Sampler._sample(points) on the points _generate_points returned
SampleDirectCall ==
    /\ sm.phase = "idle"
    /\ sm.generated # <<>>
    /\ sm' = [sm EXCEPT !.sampled = _sample(sm.image, sm.generated),
                         !.out = _sample(sm.image, sm.generated)]
    /\ UNCHANGED <<refVars, vmVars>>

\* line 337 and the loop of line 335: the profile of one landmark
SampleLandmark ==
    /\ sm.phase = "sampling"
    /\ LET r == _sample(sm.image, sm.generated)
           s == [sm EXCEPT !.sampled = r]
           done == Append(sm.collected, r.value)
       IN  IF r.out # "value"
           THEN sm' = [s EXCEPT !.phase = "idle",
                          !.out = [op |-> "sample", out |-> r.out, value |-> <<>>]]
           ELSE IF sm.batch + 1 = Len(sm.points)
           THEN sm' = [s EXCEPT !.phase = "idle", !.collected = done,
                          !.out = [op |-> "sample", out |-> "value", value |-> done]]
           ELSE sm' = [EnterGenerate(s, "sample", sm.points[sm.batch + 2],
                                     sm.normals[sm.batch + 2]) EXCEPT
                          !.batch = sm.batch + 1, !.collected = done]
    /\ UNCHANGED <<refVars, vmVars>>

(***************************************************************************)
(* The Sampler specification.                                              *)
(***************************************************************************)
SamplerInit ==
    /\ \E image \in Images, k \in 0..MaxK, pts \in SamplerShapes :
          sm = [phase |-> "idle", image |-> image, k |-> k, points |-> pts,
                normals |-> <<>>, caller |-> "none", start_point |-> <<0, 0>>,
                direction |-> <<0, 0>>, pos_points |-> <<>>, neg_points |-> <<>>,
                ind |-> 0, batch |-> 0, collected |-> <<>>, generated |-> <<>>,
                sampled |-> NoCall, out |-> NoCall]
    /\ points = <<>>
    /\ pointsIsList = FALSE
    /\ mean_shape = <<>>
    /\ old_mean_shape = <<>>
    /\ pc = "idle"
    /\ alignRet = "none"
    /\ alignCalls = 0
    /\ iterations = 0
    /\ vm = FALSE
    /\ deviation = <<>>
    /\ covariance = <<>>
    /\ pca_fitter = <<>>
    /\ vm_mean_model = <<>>
    /\ obtained = "never"
    /\ ret = [op |-> "none", out |-> "none", n |-> 0]

SamplerNext ==
    \/ CalculateNormalsCall
    \/ GeneratePointsCall
    \/ SampleCall
    \/ GeneratePosStep
    \/ GeneratePosExit
    \/ GenerateNegStep
    \/ GenerateReturn
    \/ SampleDirectCall
    \/ SampleLandmark

SamplerSpec == SamplerInit /\ [][SamplerNext]_vars

\* a running call keeps running
SamplerFairSpec ==
    /\ SamplerSpec
    /\ WF_vars(GeneratePosStep)
    /\ WF_vars(GeneratePosExit)
    /\ WF_vars(GenerateNegStep)
    /\ WF_vars(GenerateReturn)
    /\ WF_vars(SampleLandmark)

(***************************************************************************)
(* Properties of the ReferentModel and the VarianceModel.                  *)
(***************************************************************************)
\* the centroid is the origin and the squared coordinates sum to 1
CentredUnit(dc) ==
    /\ ~dc.points.nan
    /\ AxisSum(dc.points.v, 0) = 0
    /\ AxisSum(dc.points.v, 1) = 0
    /\ SumSq(dc.points.v) = dc.points.rad

\* every pair of scale factors can be added exactly
ScaleFactorsCommensurable ==
    \A i, j \in 1..Len(points) :
        Commensurable(points[i].scale_factor, points[j].scale_factor)

\* C1: every align() call ends: the loop of line 126 is left after a bounded
\* number of iterations, whatever the shape collection
C1_AlignTerminates == (pc # "idle") ~> (pc = "idle")

C4_SecondAlignCompletes ==
    (alignCalls >= 2 /\ pc = "idle") => (alignRet = "returned" /\ iterations <= 1)

GetterOps == {"get_components", "get_variances_explained"}

C9_DeviationFromMeanShape ==
    vm => \A i \in 1..Len(deviation) :
             AddArr(points[i].points, deviation[i], -1) = vm_mean_model[1].points

\* C9 amended: every row of the deviation matrix is the shape minus the
\* coordinate-wise arithmetic mean of the rows, so the rows sum to zero
C9_DeviationFromRowMean ==
    vm => /\ \A i \in 1..Len(deviation) :
                AddArr(points[i].points, deviation[i], -1) =
                    DivArr(SumArr(retrieve_as_matrix(points)), Len(points))
          /\ SumSq(SumArr(deviation).v) = 0

\* a VarianceModel built on a collection whose row mean is not the mean shape
C9_Witness ==
    /\ vm
    /\ ~mean_shape[1].points.nan
    /\ mean_model(points) # mean_shape[1].points
    /\ deviation[1] # deviation[2]

(***************************************************************************)
(* Properties of the Sampler.                                              *)
(***************************************************************************)
\* the successor landmark of a closed loop of len landmarks
SuccessorWrapped(ind, len) == (ind + 1) % len

\* C5: for every landmark count N, _calculate_normals yields one normal per
\* landmark, the average of the edge normals of (point[i-1], point[i]) and
\* (point[i], point[(i+1) mod N]) (kept doubled here, as in self.normals)
C5_NormalsWrapAround ==
    sm.out.op = "_calculate_normals" =>
        LET pts == sm.points
            len == Len(pts)
        IN  /\ sm.out.out = "value"
            /\ Len(sm.normals) = len
            /\ \A ind \in 0..(len - 1) :
                  LET n1 == normal(pts[Wrap(ind - 1, len) + 1], pts[ind + 1])
                      n2 == normal(pts[ind + 1], pts[SuccessorWrapped(ind, len) + 1])
                  IN  sm.normals[ind + 1] = <<n1[1] + n2[1], n1[2] + n2[2]>>

\* round(): to the nearest integer, halves away from zero
Round(a) ==
    IF a >= 0 THEN (2 * a + FixedPoint) \div (2 * FixedPoint)
    ELSE -((2 * (-a) + FixedPoint) \div (2 * FixedPoint))

StartingPointRounded(start) == <<Round(start[1]), Round(start[2])>>

\* the returned list has 2k+1 entries: the second loop's points last to first,
\* then centre, then the first loop's points in the order they were accepted
OrderedAround(centre) ==
    /\ Len(sm.generated) = 2 * sm.k + 1
    /\ sm.generated[sm.k + 1] = centre
    /\ \A i \in 1..sm.k :
          /\ sm.generated[i] = sm.neg_points[sm.k + 1 - i]
          /\ sm.generated[sm.k + 1 + i] = sm.pos_points[i]

\* C6 as stated: whenever _generate_points has returned, the list is negative
\* side reversed, centre, positive side, 2k+1 entries, and the centre entry is
\* the rounded start point
C6_CentreRounded ==
    sm.generated # <<>> => OrderedAround(StartingPointRounded(sm.start_point))

\* C6 amended: the same list, whose centre entry is the start point with each
\* coordinate truncated toward zero by int()
C6_CentreTruncated ==
    sm.generated # <<>> =>
        OrderedAround(<<int(sm.start_point[1]), int(sm.start_point[2])>>)

\* a returned list with two different points a side, about a start point that
\* rounding and truncation send to different pixels
C6_Witness ==
    /\ sm.generated # <<>>
    /\ sm.k >= 2
    /\ sm.neg_points[1] # sm.neg_points[2]
    /\ StartingPointRounded(sm.start_point)
          # <<int(sm.start_point[1]), int(sm.start_point[2])>>

\* C7: _sample on readable points raises DegenerateSample when the absolute
\* intensities sum to zero, and otherwise returns every intensity over that
\* sum, in the order of the points
C7_ZeroSumGuarded ==
    (sm.sampled.op = "_sample" /\ Readable(sm.generated)) =>
        LET sample == Intensities(sm.image, sm.generated)
            divnum == Divnum(sample)
        IN  IF divnum = 0
            THEN sm.sampled.out = "DegenerateSample"
            ELSE /\ sm.sampled.out = "value"
                 /\ sm.sampled.value = [i \in 1..Len(sample) |-> <<sample[i], divnum>>]

\* C8: the coordinates _generate_points returns are pairwise distinct: within
\* the positive side, within the negative side, against the centre, and
\* between the two sides
C8_PairwiseDistinct ==
    sm.generated # <<>> =>
        /\ \A i, j \in 1..Len(sm.generated) :
              i # j => sm.generated[i] # sm.generated[j]
        /\ \A i \in 1..Len(sm.pos_points) : InSeq(sm.pos_points[i], sm.generated)
        /\ \A i \in 1..Len(sm.neg_points) : InSeq(sm.neg_points[i], sm.generated)

\* a returned list of at least two points a side, built while candidates that
\* fell on an already taken pixel were skipped
C8_Witness ==
    /\ sm.generated # <<>>
    /\ sm.k >= 2
    /\ Len(sm.generated) = 2 * sm.k + 1
    /\ sm.ind > sm.k + 1

Generating == sm.phase \in {"pos", "neg"}

\* C10: for k >= 1 a _generate_points call with a direction that has a
\* non-zero component returns, and a call with the zero direction stays in the
\* first loop for ever with no point accepted
C10_TerminatesIffNonZero ==
    /\ (Generating /\ sm.k >= 1 /\ sm.direction # <<0, 0>>) ~> ~Generating
    /\ [](  (sm.phase = "pos" /\ sm.k >= 1 /\ sm.direction = <<0, 0>>)
          => [](sm.phase = "pos" /\ sm.pos_points = <<>>))

\* sample() inside the first loop of _generate_points, on a landmark whose two
\* edge normals are opposite, after every counted turn of the loop
C10_Witness ==
    /\ sm.phase = "pos"
    /\ sm.caller = "sample"
    /\ sm.k >= 1
    /\ sm.direction = <<0, 0>>
    /\ sm.ind >= MaxInd

====
